---- MODULE Spec2Model ----
(***************************************************************************)
(* IranDoc Search UI.  The repository holds two near-duplicate front ends: *)
(*   src/UI/app.js          (FileUI)                                       *)
(*   src/unnamed/part_000   (FileP0: adds the expand / OR toggles)         *)
(* Both are modelled; the variable `file` says which script the page runs. *)
(*                                                                         *)
(* A JavaScript string is a sequence of one-character strings.  A value    *)
(* that may be a string, an array or null is a record [t, v].  The HTML a  *)
(* function returns is a sequence too (of characters for highlight, of     *)
(* element records for the card builders), so that '' is <<>> and string   *)
(* concatenation is \o.                                                    *)
(***************************************************************************)
EXTENDS Naturals, Sequences, FiniteSets

VARIABLES
  file,                 \* which of the two scripts is loaded
  searchInput,          \* $('searchInput').value
  btnDisabled,          \* $('searchBtn').disabled
  statusBarVisible,     \* $('statusBar') has class "visible"
  statusCount,          \* the count shown in $('statusCount')
  expandedBoxVisible,   \* $('expandedBox') has class "visible"
  expandedTerms,        \* $('expandedTerms').innerHTML, as a chip list
  resultsContainer,     \* $('resultsContainer').innerHTML, as an element list
  _queryTokens,         \* global _queryTokens
  _expandedOnlyTokens,  \* global _expandedOnlyTokens (part_000 only)
  calls,                \* the runSearch activations, in start order
  last,                 \* what the activation that ended last did (history)
  args,                 \* arguments of the function applied (function specifications)
  ret                   \* its result

vars == <<file, searchInput, btnDisabled, statusBarVisible, statusCount, expandedBoxVisible,
          expandedTerms, resultsContainer, _queryTokens, _expandedOnlyTokens,
          calls, last, args, ret>>

FileUI == "src/UI/app.js"
FileP0 == "src/unnamed/part_000"
Files == {FileUI, FileP0}

(***************************************************************************)
(* Bounds                                                                  *)
(***************************************************************************)
MaxQueryLen == 5      \* longest query string fed to tokenise
MaxTextLen == 3       \* longest text fed to highlight
MaxTokens == 2        \* most tokens in a token list fed to highlight
MaxFieldLen == 4      \* longest person field and keyword_text
MaxCalls == 2         \* runSearch activations in one behaviour

(***************************************************************************)
(* Strings                                                                 *)
(***************************************************************************)
StringsOver(A, n) == UNION {[1..k -> A] : k \in 0..n}

Range(s) == {s[i] : i \in 1..Len(s)}

\* \s of a JavaScript regular expression, and the characters trim() strips
IsWs(c) == c \in {" ", "\n", "\t"}

RECURSIVE SkipWs(_, _)
SkipWs(s, i) == IF i <= Len(s) /\ IsWs(s[i]) THEN SkipWs(s, i + 1) ELSE i

\* String.prototype.split(/\s+/): a leading or trailing run of whitespace
\* leaves an empty first or last piece, and '' splits to [''].
RECURSIVE SplitWsFrom(_, _, _)
SplitWsFrom(s, i, cur) ==
  IF i > Len(s) THEN <<cur>>
  ELSE IF IsWs(s[i]) THEN <<cur>> \o SplitWsFrom(s, SkipWs(s, i), <<>>)
  ELSE SplitWsFrom(s, i + 1, Append(cur, s[i]))

SplitWs(s) == SplitWsFrom(s, 1, <<>>)

\* [...new Set(tokens)]: insertion order, first occurrence kept
RECURSIVE Dedupe(_)
Dedupe(seq) ==
  IF seq = <<>> THEN <<>>
  ELSE LET front == Dedupe(SubSeq(seq, 1, Len(seq) - 1))
           final == seq[Len(seq)]
       IN IF final \in Range(front) THEN front ELSE Append(front, final)

RECURSIVE TrimLeft(_)
TrimLeft(s) == IF s # <<>> /\ IsWs(Head(s)) THEN TrimLeft(Tail(s)) ELSE s

RECURSIVE TrimRight(_)
TrimRight(s) ==
  IF s # <<>> /\ IsWs(s[Len(s)]) THEN TrimRight(SubSeq(s, 1, Len(s) - 1)) ELSE s

\* String.prototype.trim
Trim(s) == TrimRight(TrimLeft(s))

(***************************************************************************)
(* JavaScript values and completions                                       *)
(***************************************************************************)
Str(s)  == [t |-> "string", v |-> s]
Arr(a)  == [t |-> "array",  v |-> a]
Null    == [t |-> "null",   v |-> <<>>]

\* !x for a string, an array or null: arrays are always truthy
Falsy(x) == x.t = "null" \/ (x.t = "string" /\ x.v = <<>>)

Return(v)  == [err |-> FALSE, v |-> v]
TypeError  == [err |-> TRUE,  v |-> <<>>]

(***************************************************************************)
(* tokenise                                                                *)
(***************************************************************************)
LongEnough(t) == Len(t) >= 2

\* src/UI/app.js: query.split(/\s+/).filter(t => t.length >= 2); calling
\* .split on an array or on null throws a TypeError.
tokenise_ui(query) ==
  IF query.t # "string" THEN TypeError
  ELSE Return(SelectSeq(SplitWs(query.v), LongEnough))

\* src/unnamed/part_000
tokenise_p0(query) ==
  IF Falsy(query) THEN Return(<<>>)
  ELSE IF query.t = "array" THEN Return(SelectSeq(query.v, LongEnough))
  ELSE IF query.t = "string"
       THEN Return(Dedupe(SelectSeq(SplitWs(query.v), LongEnough)))
  ELSE Return(<<>>)

tokenise(f, query) == IF f = FileUI THEN tokenise_ui(query) ELSE tokenise_p0(query)

(***************************************************************************)
(* Page state shared by every specification                                *)
(***************************************************************************)
NoData == [expanded_query |-> Null, hasResults |-> FALSE, results |-> <<>>]

\* last: which call ended (0: none yet), the body it was given, whether it
\* invoked renderExpandedQuery and renderCard, the token list it gave to
\* highlight, and what it left in the results area
Ended(i, data, expanded, rendered, hl, shown) ==
  [call |-> i, data |-> data, expanded |-> expanded, rendered |-> rendered,
   hl |-> hl, shown |-> shown]

NoneEnded == Ended(0, NoData, FALSE, FALSE, <<>>, <<>>)

PageInit ==
  /\ searchInput = <<>>
  /\ btnDisabled = FALSE
  /\ statusBarVisible = FALSE
  /\ statusCount = 0
  /\ expandedBoxVisible = FALSE
  /\ expandedTerms = <<>>
  /\ resultsContainer = <<>>
  /\ _queryTokens = <<>>
  /\ _expandedOnlyTokens = <<>>
  /\ calls = <<>>
  /\ last = NoneEnded

pageVars == <<searchInput, btnDisabled, statusBarVisible, statusCount, expandedBoxVisible,
              expandedTerms, resultsContainer, _queryTokens, _expandedOnlyTokens,
              calls, last>>

(***************************************************************************)
(* SpecTokenise: tokenise applied to a query string, then to its own       *)
(* result.  ret.n counts the applications made so far.                     *)
(***************************************************************************)
QueryChars == {"a", "b", " "}
QueryStrings == StringsOver(QueryChars, MaxQueryLen)

InitTokenise ==
  /\ file \in Files
  /\ PageInit
  /\ args \in {[s |-> s] : s \in QueryStrings}
  /\ ret = [n |-> 0, once |-> Return(<<>>), again |-> Return(<<>>)]

\* tokenise(s)
TokeniseString ==
  /\ ret.n = 0
  /\ ret' = [ret EXCEPT !.n = 1, !.once = tokenise(file, Str(args.s))]
  /\ UNCHANGED <<file, args, pageVars>>

\* tokenise(tokenise(s)): the array tokenise returned is passed back in
TokeniseAgain ==
  /\ ret.n = 1
  /\ ~ret.once.err
  /\ ret' = [ret EXCEPT !.n = 2, !.again = tokenise(file, Arr(ret.once.v))]
  /\ UNCHANGED <<file, args, pageVars>>

NextTokenise == TokeniseString \/ TokeniseAgain

SpecTokenise == InitTokenise /\ [][NextTokenise]_vars

\* C5: tokenising is idempotent: tokenise(tokenise(s)) returns without error
\* a list equal to tokenise(s), for every query string s.
C5_TokeniseIdempotent ==
  ret.n = 2 => ~ret.again.err /\ ret.again.v = ret.once.v

\* The maximal runs of non-whitespace characters of s
IsTerm(s, i, j) ==
  /\ 1 <= i /\ i <= j /\ j <= Len(s)
  /\ \A k \in i..j : ~IsWs(s[k])
  /\ i = 1 \/ IsWs(s[i - 1])
  /\ j = Len(s) \/ IsWs(s[j + 1])

TermsOf(s) ==
  {SubSeq(s, i, j) : <<i, j>> \in {p \in (1..Len(s)) \X (1..Len(s)) : IsTerm(s, p[1], p[2])}}

FirstStart(s, t) ==
  CHOOSE i \in 1..Len(s) :
    /\ IsTerm(s, i, i + Len(t) - 1) /\ SubSeq(s, i, i + Len(t) - 1) = t
    /\ \A k \in 1..(i - 1) :
         ~(IsTerm(s, k, k + Len(t) - 1) /\ SubSeq(s, k, k + Len(t) - 1) = t)

\* r is the reference token list of s: the terms of at least 2 characters,
\* each once, ordered by first occurrence
IsReferenceTokens(s, r) ==
  /\ Range(r) = {t \in TermsOf(s) : Len(t) >= 2}
  /\ \A i, j \in 1..Len(r) : i < j => FirstStart(s, r[i]) < FirstStart(s, r[j])

\* C6: tokenise(s) is the reference token list of s (split on whitespace
\* runs, terms shorter than 2 dropped, first occurrence of each term kept), so
\* every token has length >= 2 and none occurs twice.
C6_TokeniseReference ==
  ret.n >= 1 =>
    /\ ~ret.once.err
    /\ IsReferenceTokens(args.s, ret.once.v)
    /\ \A i \in 1..Len(ret.once.v) : Len(ret.once.v[i]) >= 2
    /\ \A i, j \in 1..Len(ret.once.v) : i # j => ret.once.v[i] # ret.once.v[j]

(***************************************************************************)
(* escHtml                                                                 *)
(***************************************************************************)
\* str.replace(/c/g, rep) for a one-character pattern c
RECURSIVE ReplaceChar(_, _, _)
ReplaceChar(s, c, rep) ==
  IF s = <<>> THEN <<>>
  ELSE (IF Head(s) = c THEN rep ELSE <<Head(s)>>) \o ReplaceChar(Tail(s), c, rep)

Amp  == <<"&", "a", "m", "p", ";">>
Lt   == <<"&", "l", "t", ";">>
Gt   == <<"&", "g", "t", ";">>
Quot == <<"&", "q", "u", "o", "t", ";">>

\* String(str || '') and the four replacements, in the order of the source
escHtml(str) ==
  ReplaceChar(ReplaceChar(ReplaceChar(ReplaceChar(str, "&", Amp), "<", Lt), ">", Gt), "\"", Quot)

(***************************************************************************)
(* highlight.  The regular expressions it builds use these parts of the    *)
(* pattern language: literals, the wildcard ".", the alternation "|", and  *)
(* a backslash making the next character a literal.  (The other            *)
(* metacharacters the source escapes are left out of the token alphabet.)  *)
(***************************************************************************)
RegexMeta == {".", "|", "\\"}

\* t.replace(/[.*+?^${}()|[\]\\]/g, '\\$&')
RECURSIVE EscapeRegex(_)
EscapeRegex(t) ==
  IF t = <<>> THEN <<>>
  ELSE (IF Head(t) \in RegexMeta THEN <<"\\", Head(t)>> ELSE <<Head(t)>>)
       \o EscapeRegex(Tail(t))

\* escaped.join('|')
RECURSIVE JoinBar(_)
JoinBar(ts) ==
  IF ts = <<>> THEN <<>>
  ELSE IF Len(ts) = 1 THEN ts[1]
  ELSE ts[1] \o <<"|">> \o JoinBar(Tail(ts))

Literal(c) == [any |-> FALSE, c |-> c]
Wildcard   == [any |-> TRUE,  c |-> "."]

\* new RegExp('(' + src + ')', 'g'): the alternatives of the group, each a
\* sequence of atoms.  alts is the list parsed so far, its last element the
\* alternative being read.
RECURSIVE Compile(_, _, _)
Compile(src, i, alts) ==
  LET n == Len(alts)
      add(atom) == [alts EXCEPT ![n] = Append(@, atom)]
  IN IF i > Len(src) THEN alts
     ELSE IF src[i] = "\\" /\ i < Len(src) THEN Compile(src, i + 2, add(Literal(src[i + 1])))
     ELSE IF src[i] = "|" THEN Compile(src, i + 1, Append(alts, <<>>))
     ELSE IF src[i] = "." THEN Compile(src, i + 1, add(Wildcard))
     ELSE Compile(src, i + 1, add(Literal(src[i])))

\* The alternative alt matches s at position i
MatchesAt(s, i, alt) ==
  /\ i + Len(alt) - 1 <= Len(s)
  /\ \A k \in 1..Len(alt) :
       IF alt[k].any THEN s[i + k - 1] # "\n" ELSE s[i + k - 1] = alt[k].c

\* The first alternative, in pattern order, that matches s at i; 0 when none
RECURSIVE FirstMatch(_, _, _, _)
FirstMatch(s, i, alts, a) ==
  IF a > Len(alts) THEN 0
  ELSE IF MatchesAt(s, i, alts[a]) THEN a
  ELSE FirstMatch(s, i, alts, a + 1)

MarkOpen  == <<"<", "m", "a", "r", "k", " ", "c", "l", "a", "s", "s", "=", "\"", "h", "l", "\"", ">">>
MarkClose == <<"<", "/", "m", "a", "r", "k", ">">>

\* s.replace(re, '<mark class="hl">$1</mark>') with the g flag: left to
\* right, matches do not overlap, an empty match is followed by one
\* unmatched character.
RECURSIVE ReplaceAllMatches(_, _, _)
ReplaceAllMatches(s, i, alts) ==
  LET a == FirstMatch(s, i, alts, 1)
      n == IF a = 0 THEN 0 ELSE Len(alts[a])
      rest == IF i > Len(s) THEN <<>> ELSE <<s[i]>> \o ReplaceAllMatches(s, i + 1, alts)
  IN IF a = 0 THEN rest
     ELSE IF n = 0 THEN MarkOpen \o MarkClose \o rest
     ELSE MarkOpen \o SubSeq(s, i, i + n - 1) \o MarkClose
          \o ReplaceAllMatches(s, i + n, alts)

highlight_raw(text, tokens) ==
  IF text = <<>> \/ tokens = <<>> THEN escHtml(text)
  ELSE LET escaped == [k \in 1..Len(tokens) |-> EscapeRegex(tokens[k])]
           re      == Compile(JoinBar(escaped), 1, <<<<>>>>)
       IN ReplaceAllMatches(text, 1, re)

highlight(text, tokens) ==
  IF text = <<>> \/ tokens = <<>> THEN escHtml(text)
  ELSE LET escaped == [k \in 1..Len(tokens) |-> EscapeRegex(tokens[k])]
           re      == Compile(JoinBar(escaped), 1, <<<<>>>>)
       IN ReplaceAllMatches(escHtml(text), 1, re)

(***************************************************************************)
(* SpecHighlight: highlight applied to a text and a token list.            *)
(***************************************************************************)
TextChars == {"<", ">", "&", "l", "t", "."}
Texts == StringsOver(TextChars, MaxTextLen)

\* Tokens that meet the escaped text in different ways: inside an entity,
\* across its end, with a metacharacter
TokenPool ==
  { <<"l", "t">>, <<"t", ";">>, <<".", "t">>, <<"l", "|">> }

TokenLists == UNION {[1..k -> TokenPool] : k \in 0..MaxTokens}

InitHighlight ==
  /\ file \in Files
  /\ PageInit
  /\ args \in [text : Texts, tokens : TokenLists]
  /\ ret = [done |-> FALSE, v |-> <<>>]

Highlight ==
  /\ ~ret.done
  /\ ret' = [done |-> TRUE, v |-> highlight(args.text, args.tokens)]
  /\ UNCHANGED <<file, args, pageVars>>

NextHighlight == Highlight

SpecHighlight == InitHighlight /\ [][NextHighlight]_vars

IsAt(s, i, m) == i + Len(m) - 1 <= Len(s) /\ SubSeq(s, i, i + Len(m) - 1) = m

\* html with every highlight marker taken out
RECURSIVE StripMarkers(_, _)
StripMarkers(html, i) ==
  IF i > Len(html) THEN <<>>
  ELSE IF IsAt(html, i, MarkOpen) THEN StripMarkers(html, i + Len(MarkOpen))
  ELSE IF IsAt(html, i, MarkClose) THEN StripMarkers(html, i + Len(MarkClose))
  ELSE <<html[i]>> \o StripMarkers(html, i + 1)

\* The text an HTML parser reads back from escaped text: each of the four
\* entities is one character again
RECURSIVE Unescape(_, _)
Unescape(html, i) ==
  IF i > Len(html) THEN <<>>
  ELSE IF IsAt(html, i, Amp)  THEN <<"&">>  \o Unescape(html, i + Len(Amp))
  ELSE IF IsAt(html, i, Lt)   THEN <<"<">>  \o Unescape(html, i + Len(Lt))
  ELSE IF IsAt(html, i, Gt)   THEN <<">">>  \o Unescape(html, i + Len(Gt))
  ELSE IF IsAt(html, i, Quot) THEN <<"\"">> \o Unescape(html, i + Len(Quot))
  ELSE <<html[i]>> \o Unescape(html, i + 1)

\* C4: the output of highlight is the HTML-escaped text with highlight
\* markers inserted and nothing else: without the markers it is escHtml(text),
\* which holds no '<' or '>' and reads back as the text.
C4_HighlightOnlyAddsMarkers ==
  ret.done =>
    LET plain == StripMarkers(ret.v, 1)
    IN /\ plain = escHtml(args.text)
       /\ \A k \in 1..Len(plain) : plain[k] \notin {"<", ">"}
       /\ Unescape(plain, 1) = args.text

\* A text holding markup characters has been highlighted: a token matched
C4_Witness ==
  /\ ret.done
  /\ \E k \in 1..Len(args.text) : args.text[k] \in {"<", ">"}
  /\ ret.v # escHtml(args.text)

(***************************************************************************)
(* renderExpandedQuery.  box is the expansion panel before the call; the   *)
(* result is the panel after it, and whether the call threw.               *)
(***************************************************************************)
Chip(cls, tok) == [cls |-> cls, text |-> escHtml(tok)]

\* expTokens.map(tok => '<span class="exp-term ' + cls + '">' + escHtml(tok) + '</span>')
Chips(origTokens, expTokens) ==
  [k \in 1..Len(expTokens) |->
     Chip(IF expTokens[k] \in Range(origTokens) THEN "original" ELSE "added", expTokens[k])]

Panel(err, visible, terms) == [err |-> err, visible |-> visible, terms |-> terms]

\* src/UI/app.js
renderExpandedQuery_ui(original, expanded, box) ==
  IF Falsy(expanded) \/ expanded = Str(original)
  THEN Panel(FALSE, FALSE, box.terms)
  ELSE LET orig == tokenise_ui(Str(original))
           exp  == tokenise_ui(expanded)
       IN IF exp.err THEN Panel(TRUE, box.visible, box.terms)
          ELSE Panel(FALSE, TRUE, Chips(orig.v, exp.v))

\* src/unnamed/part_000
renderExpandedQuery_p0(original, expanded, box) ==
  IF Falsy(expanded) THEN Panel(FALSE, FALSE, box.terms)
  ELSE LET origTokens == tokenise_p0(Str(original)).v
           expTokens  == tokenise_p0(expanded).v
           hasNewTerm == \E k \in 1..Len(expTokens) : expTokens[k] \notin Range(origTokens)
       IN IF ~hasNewTerm THEN Panel(FALSE, FALSE, box.terms)
          ELSE Panel(FALSE, TRUE, Chips(origTokens, expTokens))

renderExpandedQuery(f, original, expanded, box) ==
  IF f = FileUI THEN renderExpandedQuery_ui(original, expanded, box)
  ELSE renderExpandedQuery_p0(original, expanded, box)

(***************************************************************************)
(* SpecExpand: renderExpandedQuery applied to a query and an expanded      *)
(* query.  The query is what runSearch passes: trimmed and not empty.      *)
(***************************************************************************)
TrimmedQueries == {s \in QueryStrings : s # <<>> /\ Trim(s) = s}

ExpandedValues ==
  {Null} \cup {Str(s) : s \in QueryStrings}
  \cup {Arr(<<>>), Arr(<< <<"a", "a">> >>), Arr(<< <<"a">>, <<"b", "b">>, <<"a", "a">> >>)}

\* The panel may be showing the chips of an earlier response
InitExpand ==
  /\ file \in Files
  /\ searchInput = <<>>
  /\ btnDisabled = FALSE
  /\ statusBarVisible = FALSE
  /\ statusCount = 0
  /\ expandedBoxVisible \in BOOLEAN
  /\ expandedTerms = IF expandedBoxVisible THEN <<Chip("added", <<"a", "b">>)>> ELSE <<>>
  /\ resultsContainer = <<>>
  /\ _queryTokens = <<>>
  /\ _expandedOnlyTokens = <<>>
  /\ calls = <<>>
  /\ last = NoneEnded
  /\ args \in [original : TrimmedQueries, expanded : ExpandedValues]
  /\ ret = [done |-> FALSE, err |-> FALSE]

RenderExpandedQuery ==
  /\ ~ret.done
  /\ LET r == renderExpandedQuery(file, args.original, args.expanded,
                                  [visible |-> expandedBoxVisible, terms |-> expandedTerms])
     IN /\ expandedBoxVisible' = r.visible
        /\ expandedTerms' = r.terms
        /\ ret' = [done |-> TRUE, err |-> r.err]
  /\ UNCHANGED <<file, args, searchInput, btnDisabled, statusBarVisible, statusCount,
                 resultsContainer, _queryTokens, _expandedOnlyTokens, calls, last>>

NextExpand == RenderExpandedQuery

SpecExpand == InitExpand /\ [][NextExpand]_vars

\* The tokens of a query value, by the reference of C6: the terms of at least
\* 2 characters of a string, the strings of at least 2 characters of a list
TokensOf(x) ==
  IF x.t = "string" THEN {t \in TermsOf(x.v) : Len(t) >= 2}
  ELSE IF x.t = "array" THEN {t \in Range(x.v) : Len(t) >= 2}
  ELSE {}

\* C2: renderExpandedQuery makes the expansion panel visible if and only if
\* at least one token of the expanded query is absent from the original
\* query's tokens; otherwise (expanded falsy, equal to the original, or a
\* repetition or reordering of its tokens) the panel is hidden.
C2_PanelVisibleIffAddedToken ==
  ret.done =>
    /\ ~ret.err
    /\ expandedBoxVisible <=> (TokensOf(args.expanded) \ TokensOf(Str(args.original)) # {})

(***************************************************************************)
(* The card builders.  The HTML they return is a sequence of element       *)
(* records; '' is <<>>.                                                    *)
(***************************************************************************)
\* U+060C, the Arabic comma
ArabicComma == "U+060C"

\* /[،,;\/]/
PersonDelims == {ArabicComma, ",", ";", "/"}

\* String.prototype.split on a class of single characters: every delimiter
\* ends a piece, so adjacent delimiters leave empty pieces
RECURSIVE SplitOnFrom(_, _, _, _)
SplitOnFrom(s, delims, i, cur) ==
  IF i > Len(s) THEN <<cur>>
  ELSE IF s[i] \in delims THEN <<cur>> \o SplitOnFrom(s, delims, i + 1, <<>>)
  ELSE SplitOnFrom(s, delims, i + 1, Append(cur, s[i]))

SplitOn(s, delims) == SplitOnFrom(s, delims, 1, <<>>)

NonEmpty(s) == s # <<>>

\* .map(n => n.trim()).filter(Boolean)
TrimAll(parts) == SelectSeq([k \in 1..Len(parts) |-> Trim(parts[k])], NonEmpty)

\* buildPersonRow.  With no name left, names[0] is undefined and
\* escHtml(undefined) is '': the row is built around one empty span.
buildPersonRow(icon, label, value) ==
  IF value = <<>> \/ Trim(value) = <<>> THEN <<>>
  ELSE LET names == TrimAll(SplitOn(value, PersonDelims))
           nameHtml ==
             IF Len(names) > 1
             THEN [el |-> "person-name-list",
                   names |-> [k \in 1..Len(names) |-> escHtml(names[k])]]
             ELSE [el |-> "person-name",
                   names |-> <<escHtml(IF names = <<>> THEN <<>> ELSE names[1])>>]
       IN <<[el |-> "person-row", icon |-> icon, label |-> label, name |-> nameHtml]>>

\* a.includes(b)
Includes(a, b) ==
  \E i \in 0..Len(a) : i + Len(b) <= Len(a) /\ SubSeq(a, i + 1, i + Len(b)) = b

KeywordChip(k, isMatch) == [text |-> escHtml(k), match |-> isMatch]

buildKeywords_oneWay(raw, queryTokens) ==
  IF raw = <<>> \/ Trim(raw) = <<>> THEN <<>>
  ELSE LET kws == TrimAll(SplitOn(raw, {"\n"}))
       IN IF kws = <<>> THEN <<>>
          ELSE <<[el |-> "card-keywords-wrap",
                  chips |-> [i \in 1..Len(kws) |->
                    KeywordChip(kws[i],
                      \E n \in 1..Len(queryTokens) : Includes(kws[i], queryTokens[n]))]]>>

\* buildKeywords; queryTokens is the global _queryTokens
buildKeywords(raw, queryTokens) ==
  IF raw = <<>> \/ Trim(raw) = <<>> THEN <<>>
  ELSE LET kws == TrimAll(SplitOn(raw, {"\n"}))
       IN IF kws = <<>> THEN <<>>
          ELSE <<[el |-> "card-keywords-wrap",
                  chips |-> [i \in 1..Len(kws) |->
                    KeywordChip(kws[i],
                      \E n \in 1..Len(queryTokens) :
                        \/ Includes(kws[i], queryTokens[n])
                        \/ Includes(queryTokens[n], kws[i]))]]>>

\* The token list highlight is given by renderCardHeader and renderCardBody:
\* _queryTokens in src/UI/app.js, _expandedOnlyTokens in src/unnamed/part_000
HighlightTokens(f, queryTokens, expandedOnlyTokens) ==
  IF f = FileUI THEN queryTokens ELSE expandedOnlyTokens

renderCardBody(f, doc, queryTokens, expandedOnlyTokens) ==
  LET people ==
        buildPersonRow("author", "author", doc.authors)
        \o buildPersonRow("advisor", "advisor", doc.advisors)
        \o buildPersonRow("co_advisor", "co_advisor", doc.co_advisors)
      abstract ==
        IF doc.abs_text # <<>>
        THEN <<[el |-> "card-abstract-wrap",
                html |-> highlight(doc.abs_text,
                                   HighlightTokens(f, queryTokens, expandedOnlyTokens))]>>
        ELSE <<>>
      keywords == buildKeywords(doc.keyword_text, queryTokens)
  IN IF people = <<>> /\ abstract = <<>> /\ keywords = <<>> THEN <<>>
     ELSE <<[el |-> "card-body",
             children |->
               (IF people # <<>> THEN <<[el |-> "card-people", children |-> people]>> ELSE <<>>)
               \o abstract \o keywords]>>

Dash == <<"-">>

\* renderCardHeader.  The meta tags (id, degree, year, type, university,
\* score) are constant markup around escHtml of the field and are left out.
renderCardHeader(f, doc, rank, queryTokens, expandedOnlyTokens) ==
  <<[el |-> "card-header", rank |-> rank,
     title |-> highlight(IF doc.title = <<>> THEN Dash ELSE doc.title,
                         HighlightTokens(f, queryTokens, expandedOnlyTokens))]>>

renderCard(f, doc, rank, queryTokens, expandedOnlyTokens) ==
  <<[el |-> "result-card",
     children |-> renderCardHeader(f, doc, rank, queryTokens, expandedOnlyTokens)
                  \o renderCardBody(f, doc, queryTokens, expandedOnlyTokens)]>>

(***************************************************************************)
(* SpecPerson: buildPersonRow applied to a person field.                   *)
(***************************************************************************)
PersonChars == {"x", ",", "/", " "}
PersonValues == StringsOver(PersonChars, MaxFieldLen)

InitPerson ==
  /\ file \in Files
  /\ PageInit
  /\ args \in [value : PersonValues]
  /\ ret = [done |-> FALSE, v |-> <<>>]

BuildPersonRow ==
  /\ ~ret.done
  /\ ret' = [done |-> TRUE, v |-> buildPersonRow("author", "author", args.value)]
  /\ UNCHANGED <<file, args, pageVars>>

NextPerson == BuildPersonRow

SpecPerson == InitPerson /\ [][NextPerson]_vars

\* A person field that leaves no name: nothing but delimiters and whitespace
NoNames(value) ==
  \A k \in 1..Len(value) : value[k] \in PersonDelims \/ IsWs(value[k])

\* C7: a person field that leaves zero names after splitting on the
\* delimiters, trimming and dropping empty parts gets no row: buildPersonRow
\* returns the empty string.
C7_NoNamesNoRow ==
  ret.done /\ NoNames(args.value) => ret.v = <<>>

(***************************************************************************)
(* SpecKeywords: buildKeywords applied to a keyword_text, under the token  *)
(* list a search left in _queryTokens.                                     *)
(***************************************************************************)
KeywordChars == {"a", "b", " ", "\n"}
KeywordTexts == StringsOver(KeywordChars, MaxFieldLen)

\* Token lists tokenise can return (src/UI/app.js may repeat a token)
QueryTokenPool == { <<"a", "b">>, <<"b", "a">>, <<"a", "a", "b">> }
QueryTokenLists == UNION {[1..k -> QueryTokenPool] : k \in 0..MaxTokens}

InitKeywords ==
  /\ file \in Files
  /\ searchInput = <<>>
  /\ btnDisabled = FALSE
  /\ statusBarVisible = FALSE
  /\ statusCount = 0
  /\ expandedBoxVisible = FALSE
  /\ expandedTerms = <<>>
  /\ resultsContainer = <<>>
  /\ _queryTokens \in QueryTokenLists
  /\ _expandedOnlyTokens = <<>>
  /\ calls = <<>>
  /\ last = NoneEnded
  /\ args \in [raw : KeywordTexts]
  /\ ret = [done |-> FALSE, v |-> <<>>]

BuildKeywords ==
  /\ ~ret.done
  /\ ret' = [done |-> TRUE, v |-> buildKeywords(args.raw, _queryTokens)]
  /\ UNCHANGED <<file, args, pageVars>>

NextKeywords == BuildKeywords

SpecKeywords == InitKeywords /\ [][NextKeywords]_vars

\* The keywords of a keyword_text: its lines, trimmed, the empty ones dropped
KeywordsOf(raw) == TrimAll(SplitOn(raw, {"\n"}))

\* a is a substring of b: b is some prefix, then a, then some suffix
IsSubstring(a, b) ==
  \E i, j \in 0..Len(b) :
    i <= j /\ b = SubSeq(b, 1, i) \o a \o SubSeq(b, j + 1, Len(b))

ChipsOf(html) == IF html = <<>> THEN <<>> ELSE html[1].chips

\* C9: there is one chip per keyword of keyword_text, and it is flagged as a
\* match if and only if some token of the active token list is a substring
\* of the keyword or the keyword is a substring of the token; with an empty
\* token list no chip is flagged.
C9_ChipMatchIsSymmetricContainment ==
  ret.done =>
    LET kws   == KeywordsOf(args.raw)
        chips == ChipsOf(ret.v)
    IN /\ Len(chips) = Len(kws)
       /\ \A i \in 1..Len(chips) :
            /\ chips[i].text = escHtml(kws[i])
            /\ chips[i].match <=>
                 \E t \in Range(_queryTokens) :
                   IsSubstring(t, kws[i]) \/ IsSubstring(kws[i], t)
       /\ _queryTokens = <<>> => \A i \in 1..Len(chips) : ~chips[i].match

\* A keyword shorter than a token it is part of has been flagged, next to a
\* keyword that matches nothing
C9_Witness ==
  /\ ret.done
  /\ \E i, j \in 1..Len(ChipsOf(ret.v)) :
       /\ ChipsOf(ret.v)[i].match
       /\ \A t \in Range(_queryTokens) : ~Includes(KeywordsOf(args.raw)[i], t)
       /\ ~ChipsOf(ret.v)[j].match

(***************************************************************************)
(* SpecCard: renderCardBody applied to a document.                         *)
(***************************************************************************)
PersonPool == { <<>>, <<" ">>, <<",">>, <<"x">>, <<"x", ",", "y">>, <<" ", "/", " ">> }
AbstractPool == { <<>>, <<"a", "b">>, <<"<">> }
KeywordPool == { <<>>, <<"\n">>, <<" ", "\n", " ">>, <<"a">>, <<"a", "b", "\n", "b">> }

Doc(title, authors, advisors, co_advisors, abs_text, keyword_text) ==
  [title |-> title, authors |-> authors, advisors |-> advisors,
   co_advisors |-> co_advisors, abs_text |-> abs_text, keyword_text |-> keyword_text]

CardDocs ==
  {Doc(<<"a", "b">>, au, ad, co, ab, kw) :
     au \in PersonPool, ad \in PersonPool, co \in PersonPool,
     ab \in AbstractPool, kw \in KeywordPool}

InitCard ==
  /\ file \in Files
  /\ searchInput = <<>>
  /\ btnDisabled = FALSE
  /\ statusBarVisible = FALSE
  /\ statusCount = 0
  /\ expandedBoxVisible = FALSE
  /\ expandedTerms = <<>>
  /\ resultsContainer = <<>>
  /\ _queryTokens = << <<"a", "b">> >>
  /\ _expandedOnlyTokens = IF file = FileUI THEN <<>> ELSE << <<"a", "b">>, <<"b", "b">> >>
  /\ calls = <<>>
  /\ last = NoneEnded
  /\ args \in [doc : CardDocs]
  /\ ret = [done |-> FALSE, v |-> <<>>]

RenderCardBody ==
  /\ ~ret.done
  /\ ret' = [done |-> TRUE,
             v |-> renderCardBody(file, args.doc, _queryTokens, _expandedOnlyTokens)]
  /\ UNCHANGED <<file, args, pageVars>>

NextCard == RenderCardBody

SpecCard == InitCard /\ [][NextCard]_vars

\* C8: a document whose three person fields each leave zero names, whose
\* abs_text is empty and whose keyword_text leaves zero keywords gets no body
\* section: renderCardBody returns the empty string.
C8_EmptyDocNoBody ==
  ret.done
  /\ NoNames(args.doc.authors) /\ NoNames(args.doc.advisors) /\ NoNames(args.doc.co_advisors)
  /\ args.doc.abs_text = <<>>
  /\ KeywordsOf(args.doc.keyword_text) = <<>>
  => ret.v = <<>>

(***************************************************************************)
(* Spec: the page.  The user edits the search box and starts searches;     *)
(* each runSearch activation suspends at  await fetch(...)  and again at   *)
(* await resp.json(), and the activations outstanding resume in any order. *)
(* A call record holds the activation's position (pc), its local `query`,  *)
(* and what it did once resumed.                                           *)
(***************************************************************************)
Spinner  == [el |-> "state-box", kind |-> "spinner", msg |-> "searching"]
EmptyBox == [el |-> "state-box", kind |-> "empty",   msg |-> "none found"]
ErrorBox(msg) == [el |-> "state-box", kind |-> "error", msg |-> msg]

\* What the user types into the search box, empty at first
Inputs == { <<"a", "b">>, <<" ", "c", "d">> }

DocA == Doc(<<"a", "b", " ", "c", "d">>, <<"x", ",", "y">>, <<>>, <<>>,
            <<"a", "b", "<", "c", "d">>, <<"c", "d", "\n", "a">>)

\* The bodies /api/search answers a 2xx with: expanded_query absent, a
\* string or a list; results a list, or missing from a malformed body
Responses ==
  [expanded_query : {Null, Str(<<"c", "d">>), Arr(<< <<"a", "b">>, <<"e", "f">> >>)},
   hasResults : {TRUE},
   results : {<<>>, <<DocA>>}]
  \cup [expanded_query : {Null}, hasResults : {FALSE}, results : {<<>>}]

Outstanding(i) == calls[i].pc # "done"

\* overlaps records whether an earlier call was still awaiting its response
\* when this one was started
NewCall(query) ==
  [pc |-> "fetch", query |-> query, status |-> "pending", exit |-> "none",
   overlaps |-> \E j \in 1..Len(calls) : Outstanding(j)]

Init ==
  /\ file \in Files
  /\ PageInit
  /\ args = <<>>
  /\ ret = <<>>

\* The user edits the search box
Type(text) ==
  /\ text # searchInput
  /\ searchInput' = text
  /\ UNCHANGED <<file, btnDisabled, statusBarVisible, statusCount, expandedBoxVisible,
                 expandedTerms, resultsContainer, _queryTokens, _expandedOnlyTokens,
                 calls, last, args, ret>>

\* runSearch up to  await fetch(...)
runSearch ==
  LET query == Trim(searchInput)
  IN IF query = <<>> THEN UNCHANGED vars
     ELSE /\ Len(calls) < MaxCalls
          /\ _queryTokens' = tokenise(file, Str(query)).v
          /\ btnDisabled' = TRUE
          /\ statusBarVisible' = FALSE
          /\ expandedBoxVisible' = FALSE
          /\ resultsContainer' = <<Spinner>>
          /\ calls' = Append(calls, NewCall(query))
          /\ UNCHANGED <<file, searchInput, statusCount, expandedTerms,
                         _expandedOnlyTokens, last, args, ret>>

\* onclick of the search button: a disabled button fires no click
ClickSearch == ~btnDisabled /\ runSearch

\* keydown listener of the search input: Enter
PressEnter == runSearch

finally_onSuccessOnly(threw) == btnDisabled' = IF threw THEN btnDisabled ELSE FALSE

\* finally { btn.disabled = false; }
finally(threw) == btnDisabled' = FALSE

\* catch (err) { resultsContainer.innerHTML = error box } finally { ... }
Catch(i, msg) ==
  /\ resultsContainer' = <<ErrorBox(msg)>>
  /\ finally(TRUE)
  /\ last' = Ended(i, NoData, FALSE, FALSE, <<>>, resultsContainer')

\* fetch rejects: the network failed
FetchRejects(i) ==
  /\ calls[i].pc = "fetch"
  /\ calls' = [calls EXCEPT ![i].pc = "done", ![i].status = "net_fail", ![i].exit = "catch"]
  /\ Catch(i, "network")
  /\ UNCHANGED <<file, searchInput, statusBarVisible, statusCount, expandedBoxVisible,
                 expandedTerms, _queryTokens, _expandedOnlyTokens, args, ret>>

AfterFetch_ignoreStatus(ok) == "json"

\* if (!resp.ok) { const err = await resp.json(); throw ... }
\* const data = await resp.json();
AfterFetch(ok) == IF ok THEN "json" ELSE "errjson"

\* fetch resolves with a response; runSearch suspends again at resp.json()
FetchResolves(i, ok) ==
  /\ calls[i].pc = "fetch"
  /\ calls' = [calls EXCEPT ![i].pc = AfterFetch(ok),
                            ![i].status = IF ok THEN "ok" ELSE "http_error"]
  /\ UNCHANGED <<file, searchInput, btnDisabled, statusBarVisible, statusCount,
                 expandedBoxVisible, expandedTerms, resultsContainer, _queryTokens,
                 _expandedOnlyTokens, last, args, ret>>

\* The body of a non-2xx response settles: parsed, the Error built from it
\* is thrown; unparsable, resp.json() itself throws
ErrorBodySettles(i, parsed) ==
  /\ calls[i].pc = "errjson"
  /\ calls' = [calls EXCEPT ![i].pc = "done", ![i].exit = "catch"]
  /\ Catch(i, IF parsed THEN "server" ELSE "exception")
  /\ UNCHANGED <<file, searchInput, statusBarVisible, statusCount, expandedBoxVisible,
                 expandedTerms, _queryTokens, _expandedOnlyTokens, args, ret>>

\* The body of a 2xx response is no JSON: resp.json() throws
BodyRejects(i) ==
  /\ calls[i].pc = "json"
  /\ calls' = [calls EXCEPT ![i].pc = "done", ![i].exit = "catch"]
  /\ Catch(i, "exception")
  /\ UNCHANGED <<file, searchInput, statusBarVisible, statusCount, expandedBoxVisible,
                 expandedTerms, _queryTokens, _expandedOnlyTokens, args, ret>>

RECURSIVE RenderCards(_, _, _, _, _)
\* data.results.map((doc, i) => renderCard(doc, i + 1)).join('')
RenderCards(f, docs, rank, queryTokens, expandedOnlyTokens) ==
  IF rank > Len(docs) THEN <<>>
  ELSE renderCard(f, docs[rank], rank, queryTokens, expandedOnlyTokens)
       \o RenderCards(f, docs, rank + 1, queryTokens, expandedOnlyTokens)

\* The body of a 2xx response is parsed and runSearch runs to its end
BodyResolves(i, data) ==
  /\ calls[i].pc = "json"
  /\ LET query == calls[i].query
         panel == renderExpandedQuery(file, query, data.expanded_query,
                                      [visible |-> expandedBoxVisible, terms |-> expandedTerms])
         expTokens == tokenise(file, data.expanded_query).v
         qt == IF file = FileUI /\ ~Falsy(data.expanded_query) THEN expTokens
               ELSE _queryTokens
         eot == IF file = FileUI THEN _expandedOnlyTokens
                ELSE IF Falsy(data.expanded_query) THEN <<>> ELSE expTokens
         threw == panel.err \/ ~data.hasResults
         cards == data.hasResults /\ ~panel.err /\ data.results # <<>>
     IN /\ statusBarVisible' = TRUE
        /\ statusCount' = Len(data.results)
        /\ expandedBoxVisible' = panel.visible
        /\ expandedTerms' = panel.terms
        /\ _queryTokens' = IF panel.err THEN _queryTokens ELSE qt
        /\ _expandedOnlyTokens' = IF panel.err THEN _expandedOnlyTokens ELSE eot
        /\ resultsContainer' =
             IF threw THEN <<ErrorBox("exception")>>
             ELSE IF data.results = <<>> THEN <<EmptyBox>>
             ELSE RenderCards(file, data.results, 1, qt, eot)
        /\ finally(threw)
        /\ calls' = [calls EXCEPT ![i].pc = "done",
                                  ![i].exit = IF threw THEN "catch" ELSE "return"]
        /\ last' = Ended(i, data, TRUE, cards,
                         IF cards THEN HighlightTokens(file, qt, eot) ELSE <<>>,
                         resultsContainer')
  /\ UNCHANGED <<file, searchInput, args, ret>>

Next ==
  \/ \E text \in Inputs : Type(text)
  \/ ClickSearch
  \/ PressEnter
  \/ \E i \in 1..Len(calls) : FetchRejects(i)
  \/ \E i \in 1..Len(calls), ok \in BOOLEAN : FetchResolves(i, ok)
  \/ \E i \in 1..Len(calls), parsed \in BOOLEAN : ErrorBodySettles(i, parsed)
  \/ \E i \in 1..Len(calls) : BodyRejects(i)
  \/ \E i \in 1..Len(calls), data \in Responses : BodyResolves(i, data)

Spec == Init /\ [][Next]_vars

\* C1: every runSearch call that disabled the search button enables it again
\* when it ends, on every exit path (results shown, non-2xx response, network
\* failure, exception while processing the response).
C1_ButtonClearedOnEveryExit ==
  [][\A i \in 1..Len(calls) :
       Outstanding(i) /\ calls'[i].pc = "done" => ~btnDisabled']_vars

\* A call whose 2xx response could not be processed and a call that failed
\* on the network have both ended, and the button is enabled
C1_Witness ==
  /\ ~btnDisabled
  /\ \E i, j \in 1..Len(calls) :
       /\ calls[i].pc = "done" /\ calls[i].status = "ok" /\ calls[i].exit = "catch"
       /\ calls[j].pc = "done" /\ calls[j].status = "net_fail"

\* C3: when result cards are rendered for a response, the token list given
\* to highlight is the original query's tokens, or those together with the
\* tokens the expansion added; either way it holds every token of the query.
C3_HighlightKeepsQueryTokens ==
  last.rendered =>
    LET original == TokensOf(Str(calls[last.call].query))
        expanded == TokensOf(last.data.expanded_query)
    IN /\ Range(last.hl) \in {original, original \cup expanded}
       /\ original \subseteq Range(last.hl)

\* C10: a search whose network call failed, or whose response was not 2xx,
\* never reaches renderExpandedQuery or renderCard, and leaves exactly one
\* error message in the results area.
C10_FailedResponseNotRendered ==
  last.call # 0 /\ calls[last.call].status \in {"net_fail", "http_error"} =>
    /\ ~last.expanded
    /\ ~last.rendered
    /\ Len(last.shown) = 1
    /\ last.shown[1].kind = "error"

\* A non-2xx response has just been handled while the page shows the status
\* bar and the expansion chips of another search's response: only the
\* results area was rewritten
C10_Witness ==
  /\ last.call # 0 /\ calls[last.call].status = "http_error"
  /\ expandedBoxVisible /\ statusBarVisible
  /\ \E j \in 1..Len(calls) : calls[j].pc = "done" /\ calls[j].exit = "return"

\* C11: at most one search request is outstanding at any time: while a
\* runSearch call awaits its response, no trigger (search button, Enter key)
\* issues a second request.
C11_AtMostOneOutstanding ==
  Cardinality({i \in 1..Len(calls) : Outstanding(i)}) <= 1

\* Every call has ended, and the one that ended last was outstanding
\* together with another one
OverlappedAndResolved ==
  /\ Len(calls) >= 2
  /\ \A i \in 1..Len(calls) : ~Outstanding(i)
  /\ last.call # 0
  /\ (last.call < Len(calls) \/ calls[last.call].overlaps)

\* The page shows what the response given to the call that ended last puts
\* there: its count in the status bar, its chips in the panel (or no panel),
\* one card for each of its results
ShowsResponseOfLast ==
  LET panel == renderExpandedQuery(file, calls[last.call].query, last.data.expanded_query,
                                   [visible |-> FALSE, terms |-> <<>>])
  IN /\ statusBarVisible
     /\ statusCount = Len(last.data.results)
     /\ expandedBoxVisible = panel.visible
     /\ expandedBoxVisible => expandedTerms = panel.terms
     /\ IF last.data.results = <<>> THEN resultsContainer = <<EmptyBox>>
        ELSE /\ Len(resultsContainer) = Len(last.data.results)
             /\ \A k \in 1..Len(resultsContainer) : resultsContainer[k].el = "result-card"

\* The page shows what a failed request puts there: nothing but the error
ShowsFailureOfLast ==
  /\ ~statusBarVisible
  /\ ~expandedBoxVisible
  /\ Len(resultsContainer) = 1
  /\ resultsContainer[1].kind = "error"

\* C12: when searches overlap, none is aborted and the responses are applied
\* in arrival order: once all have resolved, the results area, the status bar
\* and the expansion panel are those of the response that arrived last,
\* whichever search was issued last.
C12_LastArrivedIsDisplayed ==
  OverlappedAndResolved =>
    /\ \A i \in 1..Len(calls) : calls[i].exit \in {"return", "catch"}
    /\ calls[last.call].exit = "return" => ShowsResponseOfLast
    /\ calls[last.call].status \in {"net_fail", "http_error"} => ShowsFailureOfLast

\* The cards rendered from the response of the call that ended last are
\* still on the page.  Only runSearch and the processing of a response assign
\* the token lists, and both rewrite the results area, so _queryTokens is the
\* list buildKeywords read for these cards and last.hl the list highlight read.
CardsOfLastOnPage ==
  /\ last.rendered
  /\ resultsContainer = last.shown

\* C13: under any interleaving of searches, the token lists that highlight
\* and buildKeywords read while the cards of a response are rendered hold only
\* tokens of the query or of the expanded_query of the search that produced
\* the response, never tokens of another search's query.
C13_CardsUseOwnTokens ==
  CardsOfLastOnPage =>
    Range(_queryTokens) \cup Range(last.hl)
      \subseteq TokensOf(Str(calls[last.call].query)) \cup TokensOf(last.data.expanded_query)

====
